---- MODULE Spec2Model ----
(***************************************************************************)
(* A model of buildChangelog (src/src/transform.ts): the pipeline that     *)
(* sorts, links, deduplicates, labels, renders, classifies and assembles   *)
(* pull-request records into the changelog document.                       *)
(*                                                                         *)
(* Strings are sequences of items.  An item is either a literal atom (a    *)
(* word, a blank, a newline, a separator) or one placeholder token         *)
(* `${{KEY}}`, `${{KEY[i]}}`, `${{KEY[*]}}`, `${{KEY[i].field}}`.           *)
(* An optional value (`x | undefined`) is a sequence of length 0 or 1.     *)
(* A compiled regular expression is modelled by its graph on the strings   *)
(* it is applied to: what String.match and String.replace return there.    *)
(***************************************************************************)
EXTENDS Integers, Sequences, FiniteSets, TLC

VARIABLES
    pc,               \* position inside buildChangelog
    call,             \* 1 during the first invocation, 2 during the second
    cfg,              \* options.configuration (+ owner/repo/tags of options)
    heap,             \* the record objects, by identity
    origPrs,          \* the argument origPrs: a sequence of object identities
    prs,              \* the local `prs`
    removedElements,  \* the count reported by the deduplication stage
    transformedMap,   \* record identity -> rendered body
    placeholderPrMap, \* custom placeholder name -> extracted values
    categorized,      \* per category (by position): the list of pushed bodies
    categorizedPrs,
    ignoredPrs,
    openPrs,
    uncategorizedPrs,
    changelog,        \* the returned document
    first             \* what the first invocation returned (document, counts)

vars == <<pc, call, cfg, heap, origPrs, prs, removedElements, transformedMap,
          placeholderPrMap, categorized, categorizedPrs, ignoredPrs, openPrs,
          uncategorizedPrs, changelog, first>>

-----------------------------------------------------------------------------
(* Optional values *)
Undef == <<>>
Def(x) == <<x>>
IsDef(o) == Len(o) = 1
Val(o) == o[1]

(* Items and strings *)
NoIdx == -1
Star == -2
L(c) == [key |-> "", idx |-> NoIdx, field |-> "", ch |-> c]
P(k, i, f) == [key |-> k, idx |-> i, field |-> f, ch |-> ""]
S(c) == <<L(c)>>
IsToken(it) == it.key # ""
NL == L("\n")
Blank == L(" ")

RECURSIVE Flatten(_)
Flatten(ss) == IF ss = <<>> THEN <<>> ELSE Head(ss) \o Flatten(Tail(ss))

RECURSIVE Join(_, _)
Join(ss, sep) ==
    IF ss = <<>> THEN <<>>
    ELSE IF Len(ss) = 1 THEN ss[1]
    ELSE ss[1] \o sep \o Join(Tail(ss), sep)

CommaSpace == <<L(","), Blank>>

Range(s) == {s[i] : i \in 1..Len(s)}

RECURSIVE SelectIdx(_, _)
SelectIdx(s, keep) ==
    IF s = <<>> THEN <<>>
    ELSE (IF keep[1] THEN <<s[1]>> ELSE <<>>) \o SelectIdx(Tail(s), Tail(keep))

(* String.prototype.toLocaleLowerCase('en') on the atoms of the model *)
LowerAtom(c) ==
    CASE c = "A" -> "a"
      [] c = "B" -> "b"
      [] c = "X" -> "x"
      [] c = "K" -> "k"
      [] OTHER -> c
toLocaleLowerCase(s) ==
    [i \in 1..Len(s) |-> IF IsToken(s[i]) THEN s[i] ELSE L(LowerAtom(s[i].ch))]

(* String.prototype.trim *)
IsSpace(it) == ~IsToken(it) /\ it.ch \in {" ", "\n"}
RECURSIVE TrimStart(_)
TrimStart(s) == IF s # <<>> /\ IsSpace(Head(s)) THEN TrimStart(Tail(s)) ELSE s
RECURSIVE TrimEnd(_)
TrimEnd(s) ==
    IF s # <<>> /\ IsSpace(s[Len(s)]) THEN TrimEnd(SubSeq(s, 1, Len(s) - 1)) ELSE s
trim(s) == TrimEnd(TrimStart(s))

(* parseInt: leading blanks are skipped, then the leading digits are read; *)
(* NaN (modelled as -1) when the string does not start with a digit.       *)
NaN == -1
DigitOf(c) ==
    CASE c = "0" -> 0 [] c = "1" -> 1 [] c = "2" -> 2 [] c = "3" -> 3 [] c = "4" -> 4
      [] c = "5" -> 5 [] c = "6" -> 6 [] c = "7" -> 7 [] c = "8" -> 8 [] c = "9" -> 9
      [] OTHER -> NaN
IsDigit(it) == ~IsToken(it) /\ DigitOf(it.ch) # NaN
RECURSIVE ReadDigits(_, _)
ReadDigits(s, acc) ==
    IF s # <<>> /\ IsDigit(Head(s))
    THEN ReadDigits(Tail(s), 10 * acc + DigitOf(Head(s).ch))
    ELSE acc
parseInt(s) ==
    LET t == TrimStart(s)
    IN IF t # <<>> /\ IsDigit(Head(t)) THEN ReadDigits(t, 0) ELSE NaN
isNaN(n) == n = NaN

(* Regular expressions by their graph: p.graph[v] = [m |-> what v.match(p) *)
(* returns (Undef for null), r |-> what v.replace(p, target) returns].     *)
(* A string outside the graph does not match: match gives null and         *)
(* replace gives the string back.                                         *)
RegexMatch(p, v) == IF v \in DOMAIN p.graph THEN p.graph[v].m ELSE Undef
RegexReplace(p, v) == IF v \in DOMAIN p.graph THEN p.graph[v].r ELSE v

(* validateTransformer: the compiled transformer, or null (Undef) when the *)
(* configured one is undefined or its expression does not compile.         *)
validateTransformer(t) ==
    IF IsDef(t) /\ Val(t).valid THEN t ELSE Undef

validateTransformers(ts) ==
    SelectIdx(ts, [i \in 1..Len(ts) |->
        IsDef(validateTransformer(Def(ts[i]))) /\ IsDef(ts[i].pattern)])

(* retrieveProperty(pr, prop): the text of one property of a record *)
retrieveProperty(pr, prop) ==
    CASE prop = "title" -> pr.title
      [] prop = "body" -> pr.body
      [] OTHER -> pr.body

(* extractValuesFromString: Undef is `null`, Def(list) a string array *)
extractValuesFromString(value, extractor) ==
    IF ~IsDef(extractor.pattern) THEN Undef
    ELSE LET pat == Val(extractor.pattern)
             lables == RegexMatch(pat, value)
             label == RegexReplace(pat, value)
         IN IF extractor.method = "match" /\ IsDef(lables) /\ Len(Val(lables)) > 0
            THEN Def([i \in 1..Len(Val(lables)) |-> toLocaleLowerCase(Val(lables)[i])])
            ELSE IF extractor.method # "match" /\ label # <<>>
            THEN Def(<<toLocaleLowerCase(label)>>)
            ELSE IF IsDef(extractor.onEmpty)
            THEN Def(<<toLocaleLowerCase(Val(extractor.onEmpty))>>)
            ELSE Undef

RECURSIVE ConcatExtracted(_, _, _)
ConcatExtracted(pr, list, extractor) ==
    IF list = <<>> THEN <<>>
    ELSE LET values == extractValuesFromString(retrieveProperty(pr, Head(list)), extractor)
         IN (IF IsDef(values) THEN Val(values) ELSE <<>>)
            \o ConcatExtracted(pr, Tail(list), extractor)

extractValues(pr, extractor) ==
    IF ~IsDef(extractor.pattern) THEN Undef
    ELSE IF IsDef(extractor.onProperty)
    THEN Def(ConcatExtracted(pr, Val(extractor.onProperty), extractor))
    ELSE extractValuesFromString(pr.body, extractor)

(* sortPullRequests: a stable sort of the records on mergedAt, ascending   *)
(* or descending.                                                          *)
Before(a, b, sort) ==
    IF sort.order = "ASC" THEN heap[a].mergedAt <= heap[b].mergedAt
    ELSE heap[a].mergedAt >= heap[b].mergedAt
RECURSIVE InsertSorted(_, _, _)
InsertSorted(x, s, sort) ==
    IF s = <<>> THEN <<x>>
    ELSE IF Before(s[Len(s)], x, sort) THEN Append(s, x)
    ELSE Append(InsertSorted(x, SubSeq(s, 1, Len(s) - 1), sort), s[Len(s)])
RECURSIVE SortFrom(_, _, _)
SortFrom(s, acc, sort) ==
    IF s = <<>> THEN acc ELSE SortFrom(Tail(s), InsertSorted(Head(s), acc, sort), sort)
sortPullRequests(s, sort) == SortFrom(s, <<>>, sort)

-----------------------------------------------------------------------------
(* Reference linking (transform.ts 41-76) *)

(* mapped.get(n) after `for (const pr of prs) mapped.set(pr.number, pr)`:  *)
(* the last record of prs with that number, or undefined.                  *)
RECURSIVE MappedGet(_, _, _)
MappedGet(list, h, n) ==
    IF list = <<>> THEN Undef
    ELSE IF h[list[Len(list)]].number = n THEN Def(list[Len(list)])
    ELSE MappedGet(SubSeq(list, 1, Len(list) - 1), h, n)

(* a linker that assigns the child array instead of pushing onto it *)
PushChildOverwrite(h, parent, pr) ==
    [h EXCEPT ![parent].childPrs = Def(<<pr>>)]

(* parent.childPrs.push(pr), creating the array when it is undefined *)
PushChild(h, parent, pr) ==
    [h EXCEPT ![parent].childPrs =
        Def((IF IsDef(h[parent].childPrs) THEN Val(h[parent].childPrs) ELSE <<>>) \o <<pr>>)]

(* One iteration of the loop of lines 53-71 over the records still to do:  *)
(* the result is the heap and remappedPrs after the loop.                  *)
RECURSIVE LinkLoop(_, _, _, _, _)
LinkLoop(todo, all, h, remappedPrs, reference) ==
    IF todo = <<>> THEN [heap |-> h, prs |-> remappedPrs]
    ELSE LET pr == Head(todo)
             extracted == extractValues(h[pr], reference)
         IN IF IsDef(extracted) /\ Len(Val(extracted)) > 0
            THEN LET foundNumber == parseInt(Val(extracted)[1])
                     valid == ~isNaN(foundNumber)
                     parent == MappedGet(all, h, foundNumber)
                 IN IF valid /\ IsDef(parent)
                    THEN LinkLoop(Tail(todo), all, PushChild(h, Val(parent), pr),
                                  remappedPrs, reference)
                    ELSE LinkLoop(Tail(todo), all, h, Append(remappedPrs, pr), reference)
            ELSE LinkLoop(Tail(todo), all, h, Append(remappedPrs, pr), reference)

LinkReferences(list, h, config) ==
    LET reference == validateTransformer(config.reference)
    IN IF IsDef(config.reference) /\ IsDef(reference)
       THEN LinkLoop(list, list, h, <<>>, Val(reference))
       ELSE [heap |-> h, prs |-> list]

-----------------------------------------------------------------------------
(* Deduplication (transform.ts 78-103) *)

(* Map.set on an insertion-ordered map kept as a sequence of entries: a    *)
(* present key keeps its position and takes the new value.                 *)
MapHas(m, k) == \E i \in 1..Len(m) : m[i].key = k
(* a map whose set leaves the value of a present key alone *)
MapSetKeepFirst(m, k, v) ==
    IF MapHas(m, k) THEN m ELSE Append(m, [key |-> k, value |-> v])
MapSet(m, k, v) ==
    IF MapHas(m, k)
    THEN [i \in 1..Len(m) |-> IF m[i].key = k THEN [key |-> k, value |-> v] ELSE m[i]]
    ELSE Append(m, [key |-> k, value |-> v])
MapGet(m, k) == m[CHOOSE i \in 1..Len(m) : m[i].key = k].value
MapValues(m) == [i \in 1..Len(m) |-> m[i].value]

RECURSIVE DedupLoop(_, _, _, _, _)
DedupLoop(todo, h, deduplicatedMap, unmatched, extractor) ==
    IF todo = <<>> THEN [map |-> deduplicatedMap, unmatched |-> unmatched]
    ELSE LET pr == Head(todo)
             extracted == extractValues(h[pr], extractor)
         IN IF IsDef(extracted) /\ Len(Val(extracted)) > 0
            THEN DedupLoop(Tail(todo), h, MapSet(deduplicatedMap, Val(extracted)[1], pr),
                           unmatched, extractor)
            ELSE DedupLoop(Tail(todo), h, deduplicatedMap, Append(unmatched, pr), extractor)

(* The stage: [prs |-> the records kept, removed |-> removedElements]      *)
Deduplicate(list, h, config) ==
    LET extractor == validateTransformer(config.duplicate_filter)
    IN IF IsDef(config.duplicate_filter) /\ IsDef(extractor)
       THEN LET res == DedupLoop(list, h, <<>>, <<>>, Val(extractor))
                deduplicatedPRs == MapValues(res.map) \o res.unmatched
            IN [prs |-> sortPullRequests(deduplicatedPRs, config.sort),
                removed |-> Len(list) - Len(deduplicatedPRs)]
       ELSE [prs |-> list, removed |-> 0]

-----------------------------------------------------------------------------
(* Label extraction (transform.ts 105-120): the heap after every extractor *)
(* has pushed what it extracted onto pr.labels, for the records of prs.    *)
RECURSIVE ExtractLabelsPrs(_, _, _)
ExtractLabelsPrs(todo, h, extractor) ==
    IF todo = <<>> THEN h
    ELSE LET pr == Head(todo)
             extracted == extractValues(h[pr], extractor)
         IN ExtractLabelsPrs(Tail(todo),
                IF IsDef(extracted)
                THEN [h EXCEPT ![pr].labels = h[pr].labels \o Val(extracted)]
                ELSE h,
                extractor)

RECURSIVE ExtractLabelsLoop(_, _, _)
ExtractLabelsLoop(labelExtractors, list, h) ==
    IF labelExtractors = <<>> THEN h
    ELSE ExtractLabelsLoop(Tail(labelExtractors), list,
                           ExtractLabelsPrs(list, h, Head(labelExtractors)))

ExtractLabels(list, h, config) ==
    ExtractLabelsLoop(validateTransformers(config.label_extractor), list, h)

-----------------------------------------------------------------------------
(* The template engine (transform.ts 342-548) *)

(* createOrSet(map, key, value): push onto the array kept under key *)
createOrSet(m, k, v) ==
    IF MapHas(m, k)
    THEN [i \in 1..Len(m) |->
            IF m[i].key = k THEN [key |-> k, value |-> Append(m[i].value, v)] ELSE m[i]]
    ELSE Append(m, [key |-> k, value |-> <<v>>])

(* `placeholders`: custom placeholders grouped by their source (123-126) *)
RECURSIVE PlaceholdersBySource(_, _)
PlaceholdersBySource(custom, m) ==
    IF custom = <<>> THEN m
    ELSE PlaceholdersBySource(Tail(custom), createOrSet(m, Head(custom).source, Head(custom)))

(* Number.prototype.toString *)
DigitAtom(d) ==
    CASE d = 0 -> "0" [] d = 1 -> "1" [] d = 2 -> "2" [] d = 3 -> "3" [] d = 4 -> "4"
      [] d = 5 -> "5" [] d = 6 -> "6" [] d = 7 -> "7" [] d = 8 -> "8" [] OTHER -> "9"
RECURSIVE toString(_)
toString(n) ==
    IF n < 0 THEN S("-") \o toString(0 - n)
    ELSE IF n < 10 THEN S(DigitAtom(n)) ELSE toString(n \div 10) \o S(DigitAtom(n % 10))

(* String.prototype.replaceAll(token, value) *)
replaceAll(template, tok, value) ==
    Flatten([i \in 1..Len(template) |->
        IF template[i] = tok THEN value ELSE <<template[i]>>])

(* The loop of handlePlaceholder over the custom placeholders of one key:  *)
(* [text, prMap] after it.  A null placeholderPrMap is Undef.              *)
RECURSIVE CustomLoop(_, _, _, _, _)
CustomLoop(phs, value, transformed, prMap, configuration) ==
    IF phs = <<>> THEN [text |-> transformed, prMap |-> prMap]
    ELSE LET placeholder == Head(phs)
             transformer == validateTransformer(Def(placeholder.transformer))
         IN IF IsDef(transformer) /\ IsDef(Val(transformer).pattern)
            THEN LET pat == Val(Val(transformer).pattern)
                     extractedValue == RegexReplace(pat, value)
                 IN IF extractedValue # <<>>
                       /\ (extractedValue # value
                           \/ (extractedValue = value /\ IsDef(RegexMatch(pat, value))))
                    THEN CustomLoop(Tail(phs), value,
                            replaceAll(transformed, P(placeholder.name, NoIdx, ""),
                                IF configuration.trim_values THEN trim(extractedValue)
                                ELSE extractedValue),
                            IF IsDef(prMap)
                            THEN Def(createOrSet(Val(prMap), placeholder.name, extractedValue))
                            ELSE prMap,
                            configuration)
                    ELSE CustomLoop(Tail(phs), value, transformed, prMap, configuration)
            ELSE CustomLoop(Tail(phs), value, transformed, prMap, configuration)

handlePlaceholder(template, key, value, placeholders, prMap, configuration) ==
    LET transformed ==
            replaceAll(template, key, IF configuration.trim_values THEN trim(value) ELSE value)
    IN IF MapHas(placeholders, key)
       THEN CustomLoop(MapGet(placeholders, key), value, transformed, prMap, configuration)
       ELSE [text |-> transformed, prMap |-> prMap]

(* One of the two loops of replacePlaceholders over an ordered map *)
RECURSIVE ReplaceLoop(_, _, _, _, _)
ReplaceLoop(m, transformed, placeholders, prMap, configuration) ==
    IF m = <<>> THEN [text |-> transformed, prMap |-> prMap]
    ELSE LET r == handlePlaceholder(transformed, Head(m).key, Head(m).value,
                                    placeholders, prMap, configuration)
         IN IF Len(r.text) >= 0
            THEN ReplaceLoop(Tail(m), r.text, placeholders, r.prMap, configuration)
            ELSE r

replacePlaceholders(template, arrayPlaceholderMap, placeholderMap, placeholders, prMap, configuration) ==
    LET a == ReplaceLoop(arrayPlaceholderMap, template, placeholders, prMap, configuration)
    IN ReplaceLoop(placeholderMap, a.text, placeholders, a.prMap, configuration)

(* fillArrayPlaceholders: the entries it sets, in order *)
fillArrayPlaceholders(key, values) ==
    IF Len(values) = 0 THEN <<>>
    ELSE [i \in 1..Len(values) |-> [key |-> P(key, i - 1, ""), value |-> values[i]]]
         \o <<[key |-> P(key, Star, ""), value |-> Join(values, CommaSpace)]>>

(* `values[i][childKey]?.toLocaleString('en') || ''` on the modelled keys  *)
CommentInfoKeys == <<"author", "state">>
CommentField(c, childKey) == IF childKey = "author" THEN c.author ELSE c.state
PullRequestInfoKeys == <<"number", "title", "labels">>
PullRequestField(pr, childKey) ==
    CASE childKey = "number" -> toString(pr.number)
      [] childKey = "title" -> pr.title
      [] OTHER -> Join(pr.labels, S(","))

fillReviewPlaceholders(parentKey, values) ==
    IF Len(values) = 0 THEN <<>>
    ELSE Flatten([k \in 1..Len(CommentInfoKeys) |->
            [i \in 1..Len(values) |->
                [key |-> P(parentKey, i - 1, CommentInfoKeys[k]),
                 value |-> CommentField(values[i], CommentInfoKeys[k])]]
            \o <<[key |-> P(parentKey, Star, CommentInfoKeys[k]),
                  value |-> Join([i \in 1..Len(values) |->
                                    CommentField(values[i], CommentInfoKeys[k])],
                                 CommaSpace)]>>])

fillChildPrPlaceholders(parentKey, values, h) ==
    IF Len(values) = 0 THEN <<>>
    ELSE Flatten([k \in 1..Len(PullRequestInfoKeys) |->
            [i \in 1..Len(values) |->
                [key |-> P(parentKey, i - 1, PullRequestInfoKeys[k]),
                 value |-> PullRequestField(h[values[i]], PullRequestInfoKeys[k])]]
            \o <<[key |-> P(parentKey, Star, PullRequestInfoKeys[k]),
                  value |-> Join([i \in 1..Len(values) |->
                                    PullRequestField(h[values[i]], PullRequestInfoKeys[k])],
                                 CommaSpace)]>>])

KV(k, v) == [key |-> P(k, NoIdx, ""), value |-> v]
OrEmpty(o) == IF IsDef(o) THEN Val(o) ELSE <<>>

(* `--rcba-` labels are internal and not displayed *)
IsInternalLabel(l) == l # <<>> /\ l[1] = L("--rcba-")
DisplayLabels(labels) ==
    SelectIdx(labels, [i \in 1..Len(labels) |-> ~IsInternalLabel(labels[i])])

fillPrTemplate(id, h, template, placeholders, prMap, configuration) ==
    LET pr == h[id]
        arrayPlaceholderMap ==
            fillReviewPlaceholders("REVIEWS", pr.reviews)
            \o fillChildPrPlaceholders("REFERENCED", OrEmpty(pr.childPrs), h)
            \o fillArrayPlaceholders("ASSIGNEES", pr.assignees)
            \o fillArrayPlaceholders("REVIEWERS", pr.requestedReviewers)
            \o fillArrayPlaceholders("APPROVERS", pr.approvedReviewers)
        placeholderMap ==
            <<KV("NUMBER", toString(pr.number)),
              KV("TITLE", pr.title),
              KV("URL", pr.htmlURL),
              KV("STATUS", S(pr.status)),
              KV("CREATED_AT", toString(pr.createdAt)),
              KV("MERGED_AT", toString(pr.mergedAt)),
              KV("MERGE_SHA", pr.mergeCommitSha),
              KV("AUTHOR", pr.author),
              KV("LABELS", Join(DisplayLabels(pr.labels), CommaSpace)),
              KV("MILESTONE", OrEmpty(pr.milestone)),
              KV("BODY", pr.body),
              KV("ASSIGNEES", Join(pr.assignees, CommaSpace)),
              KV("REVIEWERS", Join(pr.requestedReviewers, CommaSpace)),
              KV("APPROVERS", Join(pr.approvedReviewers, CommaSpace)),
              KV("BRANCH", OrEmpty(pr.branch)),
              KV("BASE_BRANCH", pr.baseBranch)>>
    IN replacePlaceholders(template, arrayPlaceholderMap, placeholderMap, placeholders,
                           prMap, configuration)

(* a filling that takes the names of the two tags the wrong way round *)
fillAdditionalPlaceholdersSwapped(options) ==
    <<KV("OWNER", options.owner),
      KV("REPO", options.repo),
      KV("FROM_TAG", options.toTag.name),
      KV("TO_TAG", options.fromTag.name)>>

(* fillAdditionalPlaceholders: the entries it sets, in order *)
fillAdditionalPlaceholders(options) ==
    <<KV("OWNER", options.owner),
      KV("REPO", options.repo),
      KV("FROM_TAG", options.fromTag.name),
      KV("FROM_TAG_DATE", IF IsDef(options.fromTag.date)
                          THEN toString(Val(options.fromTag.date)) ELSE <<>>),
      KV("TO_TAG", options.toTag.name),
      KV("TO_TAG_DATE", IF IsDef(options.toTag.date)
                        THEN toString(Val(options.toTag.date)) ELSE <<>>),
      KV("DAYS_SINCE", IF IsDef(options.fromTag.date) /\ IsDef(options.toTag.date)
                       THEN toString(Val(options.toTag.date) - Val(options.fromTag.date))
                       ELSE <<>>),
      KV("RELEASE_DIFF", <<L("https://github.com/")>> \o options.owner \o S("/")
                         \o options.repo \o S("/compare/") \o options.fromTag.name
                         \o S("...") \o options.toTag.name)>>

replaceEmptyTemplate(template, options) ==
    replacePlaceholders(template, <<>>, fillAdditionalPlaceholders(options),
        PlaceholdersBySource(options.custom_placeholders, <<>>), Undef, options).text

(* transform: the configured transformers rewrite the rendered body *)
RECURSIVE transform(_, _)
transform(filled, transformers) ==
    IF transformers = <<>> THEN filled
    ELSE transform(RegexReplace(Val(Head(transformers).pattern), filled), Tail(transformers))

(* replacePrPlaceholders: the indexed and [*] forms of the custom          *)
(* placeholders, from the values tracked while the records were rendered   *)
RECURSIVE ReplaceIndexed(_, _, _, _, _)
ReplaceIndexed(transformed, key, values, i, configuration) ==
    IF i > Len(values) THEN transformed
    ELSE ReplaceIndexed(
            replaceAll(transformed, P(key, i - 1, ""),
                       IF configuration.trim_values THEN trim(values[i]) ELSE values[i]),
            key, values, i + 1, configuration)

RECURSIVE replacePrPlaceholders(_, _, _)
replacePrPlaceholders(template, prMap, configuration) ==
    IF prMap = <<>> THEN template
    ELSE LET key == Head(prMap).key
             values == Head(prMap).value
         IN replacePrPlaceholders(
                replaceAll(ReplaceIndexed(template, key, values, 1, configuration),
                           P(key, Star, ""), Flatten(values)),
                Tail(prMap), configuration)

(* replaceAll with one of the two cleanup expressions.  Both start at a    *)
(* token of the given key and are lazy:                                    *)
(*   custom  \$\{\{NAME(?:\[.+?\])?\}\}   ends at the first `]}}` (or at    *)
(*           once for the plain `${{NAME}}`),                              *)
(*   builtin \$\{\{KEY\[.+?\]\..*?\}\}    ends at the `}}` after the first  *)
(*           `].`.                                                         *)
(* `.` does not match a newline, so a match never leaves its line.         *)
StartsMatch(mode, it) ==
    /\ it.key = mode.key
    /\ IF mode.kind = "custom" THEN it.field = "" \/ it.idx # NoIdx ELSE it.idx # NoIdx
EndsAtOnce(mode, it) ==
    IF mode.kind = "custom" THEN it.field = "" ELSE it.field # ""
Closes(mode, it) ==
    /\ IsToken(it) /\ it.idx # NoIdx
    /\ IF mode.kind = "custom" THEN it.field = "" ELSE it.field # ""
(* the position of the item closing a match begun at s[1], or 0 *)
CloserAt(mode, s) ==
    LET cand == {j \in 2..Len(s) :
                    /\ Closes(mode, s[j])
                    /\ \A k \in 2..(j - 1) : s[k] # NL /\ ~Closes(mode, s[k])}
    IN IF cand = {} THEN 0 ELSE CHOOSE j \in cand : TRUE
RECURSIVE RemoveMatches(_, _)
RemoveMatches(mode, s) ==
    IF s = <<>> THEN <<>>
    ELSE IF StartsMatch(mode, Head(s))
    THEN IF EndsAtOnce(mode, Head(s)) THEN RemoveMatches(mode, Tail(s))
         ELSE LET j == CloserAt(mode, s)
              IN IF j = 0 THEN <<Head(s)>> \o RemoveMatches(mode, Tail(s))
                 ELSE RemoveMatches(mode, SubSeq(s, j + 1, Len(s)))
    ELSE <<Head(s)>> \o RemoveMatches(mode, Tail(s))

RECURSIVE CleanupPhs(_, _)
CleanupPhs(transformed, phs) ==
    IF phs = <<>> THEN transformed
    ELSE CleanupPhs(RemoveMatches([kind |-> "custom", key |-> Head(phs).name], transformed),
                    Tail(phs))

RECURSIVE cleanupPrPlaceholders(_, _)
cleanupPrPlaceholders(template, placeholders) ==
    IF placeholders = <<>> THEN template
    ELSE cleanupPrPlaceholders(CleanupPhs(template, Head(placeholders).value),
                               Tail(placeholders))

CleanupKeys == <<"REVIEWS", "REFERENCED", "ASSIGNEES", "REVIEWERS", "APPROVERS">>
RECURSIVE CleanupBuiltin(_, _)
CleanupBuiltin(transformed, keys) ==
    IF keys = <<>> THEN transformed
    ELSE CleanupBuiltin(RemoveMatches([kind |-> "builtin", key |-> Head(keys)], transformed),
                        Tail(keys))
cleanupPlaceholders(template) == CleanupBuiltin(template, CleanupKeys)

-----------------------------------------------------------------------------
(* Classification (transform.ts 138-239) *)

haveCommonElementsArr(arr1, arr2) == \E i \in 1..Len(arr1) : arr1[i] \in Range(arr2)
haveEveryElementsArr(arr1, arr2) == \A i \in 1..Len(arr1) : arr1[i] \in Range(arr2)

LowerAll(lbls) == [i \in 1..Len(lbls) |-> toLocaleLowerCase(lbls[i])]

(* matchesRules(rules, pr, exhaustive): every rule, or some rule, holds.   *)
(* A rule is a predicate on the record; pr.ruleHits are the rules that     *)
(* hold on it.                                                             *)
RuleHolds(rule, pr) == rule \in pr.ruleHits
matchesRules(rules, pr, exhaustive) ==
    IF exhaustive THEN \A i \in 1..Len(rules) : RuleHolds(rules[i], pr)
    ELSE \E i \in 1..Len(rules) : RuleHolds(rules[i], pr)

(* an ignore test that does not lower-case the ignored labels *)
IsIgnoredCaseSensitive(pr, ignoredLabels) == haveCommonElementsArr(ignoredLabels, pr.labels)
IsIgnored(pr, ignoredLabels) == haveCommonElementsArr(LowerAll(ignoredLabels), pr.labels)

(* lines 172-185: the category is skipped for the record *)
IsExcluded(category, pr) ==
    /\ IsDef(category.exclude_labels)
    /\ haveCommonElementsArr(LowerAll(Val(category.exclude_labels)), pr.labels)

(* lines 189: the exhaustive branch is taken *)
ExhaustiveMode(category) ==
    /\ category.exhaustive = Def(TRUE)
    /\ (IsDef(category.labels) \/ IsDef(category.rules))

(* an exhaustive match that wants the record to carry the category's       *)
(* labels and no other                                                     *)
ExhaustiveMatchExact(category, pr) ==
    LET matched == IF IsDef(category.labels)
                   THEN /\ haveEveryElementsArr(LowerAll(Val(category.labels)), pr.labels)
                        /\ haveEveryElementsArr(pr.labels, LowerAll(Val(category.labels)))
                   ELSE FALSE
        exhaustive_rules == IF IsDef(category.exhaustive_rules)
                            THEN Val(category.exhaustive_rules) ELSE TRUE
    IN IF matched /\ IsDef(category.rules)
       THEN matchesRules(Val(category.rules), pr, exhaustive_rules)
       ELSE matched

(* lines 190-202 *)
ExhaustiveMatch(category, pr) ==
    LET matched == IF IsDef(category.labels)
                   THEN haveEveryElementsArr(LowerAll(Val(category.labels)), pr.labels)
                   ELSE FALSE
        exhaustive_rules == IF IsDef(category.exhaustive_rules)
                            THEN Val(category.exhaustive_rules) ELSE TRUE
    IN IF matched /\ IsDef(category.rules)
       THEN matchesRules(Val(category.rules), pr, exhaustive_rules)
       ELSE matched

(* an individual match whose rules default to "all must hold" *)
IndividualMatchAllRules(category, pr) ==
    LET matched == IF IsDef(category.labels)
                   THEN haveCommonElementsArr(LowerAll(Val(category.labels)), pr.labels)
                   ELSE FALSE
        exhaustive_rules == IF IsDef(category.exhaustive_rules)
                            THEN Val(category.exhaustive_rules) ELSE TRUE
    IN IF ~matched /\ IsDef(category.rules)
       THEN matchesRules(Val(category.rules), pr, exhaustive_rules)
       ELSE matched

(* lines 204-219 *)
IndividualMatch(category, pr) ==
    LET matched == IF IsDef(category.labels)
                   THEN haveCommonElementsArr(LowerAll(Val(category.labels)), pr.labels)
                   ELSE FALSE
        exhaustive_rules == IF IsDef(category.exhaustive_rules)
                            THEN Val(category.exhaustive_rules) ELSE FALSE
    IN IF ~matched /\ IsDef(category.rules)
       THEN matchesRules(Val(category.rules), pr, exhaustive_rules)
       ELSE matched

(* `matched` at line 221 for one category and one record *)
Matched(category, pr) ==
    IF IsExcluded(category, pr) THEN FALSE
    ELSE IF ExhaustiveMode(category) THEN ExhaustiveMatch(category, pr)
    ELSE IndividualMatch(category, pr)

(* line 230: the category takes the records that matched nothing *)
IsCatchAll(category) ==
    /\ (~IsDef(category.labels) \/ Len(Val(category.labels)) = 0)
    /\ ~IsDef(category.rules)

(* a fallback that takes the last catch-all instead of the first *)
FallbackLast(categories, pr) ==
    LET cand == {c \in 1..Len(categories) : IsCatchAll(categories[c])}
    IN IF cand = {} THEN 0 ELSE CHOOSE c \in cand : \A d \in cand : c >= d

(* lines 229-234: the position of the category the body is pushed to, or 0 *)
FallbackCategory(categories, pr) ==
    LET cand == {c \in 1..Len(categories) : IsCatchAll(categories[c])}
    IN IF cand = {} THEN 0 ELSE CHOOSE c \in cand : \A d \in cand : c <= d

(* lines 227-235: the record matched no category *)
RouteUnmatched(b, id, cats, fb) ==
    [b EXCEPT !.categorized = IF fb = 0 THEN cats ELSE [cats EXCEPT ![fb] = Append(@, id)],
              !.uncategorizedPrs = Append(@, id)]

(* a routing that also counts a matched record as uncategorized *)
RouteMatchedBoth(b, id, cats) ==
    [b EXCEPT !.categorized = cats, !.categorizedPrs = Append(@, id),
              !.uncategorizedPrs = Append(@, id)]

(* lines 236-238: the record matched at least once *)
RouteMatched(b, id, cats) ==
    [b EXCEPT !.categorized = cats, !.categorizedPrs = Append(@, id)]

(* lines 164-166 *)
RouteOpen(b, id, pr) ==
    IF pr.status = "open" THEN [b EXCEPT !.openPrs = Append(@, id)] ELSE b

(* One iteration of the loop of line 153.  The lists hold the identity of  *)
(* the record whose body (transformedMap.get(pr)) was pushed.              *)
ClassifyOne(b, id, h, categories, ignoredLabels) ==
    LET pr == h[id]
    IN IF IsIgnored(pr, ignoredLabels)
       THEN [b EXCEPT !.ignoredPrs = Append(@, id)]
       ELSE LET bo == RouteOpen(b, id, pr)
                cats == [c \in 1..Len(categories) |->
                            IF Matched(categories[c], pr)
                            THEN Append(b.categorized[c], id) ELSE b.categorized[c]]
                matchedOnce == \E c \in 1..Len(categories) : Matched(categories[c], pr)
            IN IF ~matchedOnce
               THEN RouteUnmatched(bo, id, cats, FallbackCategory(categories, pr))
               ELSE RouteMatched(bo, id, cats)

RECURSIVE ClassifyLoop(_, _, _, _, _)
ClassifyLoop(todo, b, h, categories, ignoredLabels) ==
    IF todo = <<>> THEN b
    ELSE ClassifyLoop(Tail(todo), ClassifyOne(b, Head(todo), h, categories, ignoredLabels),
                      h, categories, ignoredLabels)

EmptyBuckets(categories) ==
    [categorized |-> [c \in 1..Len(categories) |-> <<>>],
     categorizedPrs |-> <<>>, ignoredPrs |-> <<>>, openPrs |-> <<>>,
     uncategorizedPrs |-> <<>>]

-----------------------------------------------------------------------------
(* Assembly (transform.ts 249-339) *)

Bodies(ids, tm) == Flatten([i \in 1..Len(ids) |-> tm[ids[i]] \o <<NL>>])

CategorySection(category, pullRequests, tm) ==
    IF Len(pullRequests) > 0
    THEN (IF category.title # <<>> THEN category.title \o <<NL, NL>> ELSE <<>>)
         \o Bodies(pullRequests, tm) \o <<NL>>
    ELSE IF IsDef(category.empty_content)
    THEN (IF category.title # <<>> THEN category.title \o <<NL, NL>> ELSE <<>>)
         \o Val(category.empty_content) \o <<NL, NL>>
    ELSE <<>>

ChangelogSections(categories, cats, tm) ==
    Flatten([c \in 1..Len(categories) |-> CategorySection(categories[c], cats[c], tm)])

FillTemplate(config, b, tm, prMap) ==
    LET placeholders == PlaceholdersBySource(config.custom_placeholders, <<>>)
        placeholderMap ==
            <<KV("CHANGELOG", ChangelogSections(config.categories, b.categorized, tm)),
              KV("UNCATEGORIZED", Bodies(b.uncategorizedPrs, tm)),
              KV("OPEN", Bodies(b.openPrs, tm)),
              KV("IGNORED", Bodies(b.ignoredPrs, tm)),
              KV("CATEGORIZED_COUNT", toString(Len(b.categorizedPrs))),
              KV("UNCATEGORIZED_COUNT", toString(Len(b.uncategorizedPrs))),
              KV("OPEN_COUNT", toString(Len(b.openPrs))),
              KV("IGNORED_COUNT", toString(Len(b.ignoredPrs))),
              KV("CHANGED_FILES", toString(config.diffInfo.changedFiles)),
              KV("ADDITIONS", toString(config.diffInfo.additions)),
              KV("DELETIONS", toString(config.diffInfo.deletions)),
              KV("CHANGES", toString(config.diffInfo.changes)),
              KV("COMMITS", toString(config.diffInfo.commits))>>
            \o fillAdditionalPlaceholders(config)
        r == replacePlaceholders(config.template, <<>>, placeholderMap, placeholders,
                                 Def(prMap), config)
    IN cleanupPlaceholders(
         cleanupPrPlaceholders(
           replacePrPlaceholders(r.text, Val(r.prMap), config), placeholders))

-----------------------------------------------------------------------------
(* Rendering of the records (transform.ts 122-136) *)
RECURSIVE RenderLoop(_, _, _, _, _)
RenderLoop(todo, h, config, tm, prMap) ==
    IF todo = <<>> THEN [tm |-> tm, prMap |-> prMap]
    ELSE LET r == fillPrTemplate(Head(todo), h, config.pr_template,
                                 PlaceholdersBySource(config.custom_placeholders, <<>>),
                                 Def(prMap), config)
         IN RenderLoop(Tail(todo), h, config,
                       [tm EXCEPT ![Head(todo)] =
                            transform(r.text, validateTransformers(config.transformers))],
                       Val(r.prMap))

-----------------------------------------------------------------------------
(* The steps of buildChangelog *)

NoResult == [changelog |-> <<>>, categorized_prs |-> 0, uncategorized_prs |-> 0,
             open_prs |-> 0, ignored_prs |-> 0]

Locals ==
    /\ prs = <<>>
    /\ removedElements = 0
    /\ transformedMap = [i \in DOMAIN heap |-> <<>>]
    /\ placeholderPrMap = <<>>
    /\ categorized = [c \in 1..Len(cfg.categories) |-> <<>>]
    /\ categorizedPrs = <<>>
    /\ ignoredPrs = <<>>
    /\ openPrs = <<>>
    /\ uncategorizedPrs = <<>>
    /\ changelog = <<>>

(* lines 28-33: no record, the empty template is the result *)
EmptyInput ==
    /\ pc = "start"
    /\ Len(origPrs) = 0
    /\ changelog' = replaceEmptyTemplate(cfg.empty_template, cfg)
    /\ pc' = "done"
    /\ UNCHANGED <<call, cfg, heap, origPrs, prs, removedElements, transformedMap,
                   placeholderPrMap, categorized, categorizedPrs, ignoredPrs, openPrs,
                   uncategorizedPrs, first>>

(* lines 35-39 *)
Sort ==
    /\ pc = "start"
    /\ Len(origPrs) # 0
    /\ prs' = sortPullRequests(origPrs, cfg.sort)
    /\ pc' = "link"
    /\ UNCHANGED <<call, cfg, heap, origPrs, removedElements, transformedMap,
                   placeholderPrMap, categorized, categorizedPrs, ignoredPrs, openPrs,
                   uncategorizedPrs, changelog, first>>

(* lines 41-76 *)
Link ==
    /\ pc = "link"
    /\ LET r == LinkReferences(prs, heap, cfg)
       IN /\ heap' = r.heap
          /\ prs' = r.prs
    /\ pc' = "dedup"
    /\ UNCHANGED <<call, cfg, origPrs, removedElements, transformedMap,
                   placeholderPrMap, categorized, categorizedPrs, ignoredPrs, openPrs,
                   uncategorizedPrs, changelog, first>>

(* lines 78-103 *)
Dedup ==
    /\ pc = "dedup"
    /\ LET r == Deduplicate(prs, heap, cfg)
       IN /\ prs' = r.prs
          /\ removedElements' = r.removed
    /\ pc' = "labels"
    /\ UNCHANGED <<call, cfg, heap, origPrs, transformedMap,
                   placeholderPrMap, categorized, categorizedPrs, ignoredPrs, openPrs,
                   uncategorizedPrs, changelog, first>>

(* lines 105-120 *)
Labels ==
    /\ pc = "labels"
    /\ heap' = ExtractLabels(prs, heap, cfg)
    /\ pc' = "render"
    /\ UNCHANGED <<call, cfg, origPrs, prs, removedElements, transformedMap,
                   placeholderPrMap, categorized, categorizedPrs, ignoredPrs, openPrs,
                   uncategorizedPrs, changelog, first>>

(* lines 122-136 *)
Render ==
    /\ pc = "render"
    /\ LET r == RenderLoop(prs, heap, cfg, transformedMap, <<>>)
       IN /\ transformedMap' = r.tm
          /\ placeholderPrMap' = r.prMap
    /\ pc' = "classify"
    /\ UNCHANGED <<call, cfg, heap, origPrs, prs, removedElements,
                   categorized, categorizedPrs, ignoredPrs, openPrs,
                   uncategorizedPrs, changelog, first>>

(* lines 138-240 *)
Classify ==
    /\ pc = "classify"
    /\ LET b == ClassifyLoop(prs, EmptyBuckets(cfg.categories), heap,
                             cfg.categories, cfg.ignore_labels)
       IN /\ categorized' = b.categorized
          /\ categorizedPrs' = b.categorizedPrs
          /\ ignoredPrs' = b.ignoredPrs
          /\ openPrs' = b.openPrs
          /\ uncategorizedPrs' = b.uncategorizedPrs
    /\ pc' = "assemble"
    /\ UNCHANGED <<call, cfg, heap, origPrs, prs, removedElements, transformedMap,
                   placeholderPrMap, changelog, first>>

(* lines 242-339 *)
Assemble ==
    /\ pc = "assemble"
    /\ changelog' = FillTemplate(cfg,
                        [categorized |-> categorized, categorizedPrs |-> categorizedPrs,
                         ignoredPrs |-> ignoredPrs, openPrs |-> openPrs,
                         uncategorizedPrs |-> uncategorizedPrs],
                        transformedMap, placeholderPrMap)
    /\ pc' = "done"
    /\ UNCHANGED <<call, cfg, heap, origPrs, prs, removedElements, transformedMap,
                   placeholderPrMap, categorized, categorizedPrs, ignoredPrs, openPrs,
                   uncategorizedPrs, first>>

(* What an invocation returned and set as outputs *)
Result ==
    [changelog |-> changelog,
     categorized_prs |-> Len(categorizedPrs),
     uncategorized_prs |-> Len(uncategorizedPrs),
     open_prs |-> Len(openPrs),
     ignored_prs |-> Len(ignoredPrs)]

(* The caller invokes buildChangelog again with the same arguments: the    *)
(* same array of the same record objects, the same configuration.          *)
Reinvoke ==
    /\ pc = "done"
    /\ call = 1
    /\ cfg.twice
    /\ first' = Result
    /\ call' = 2
    /\ pc' = "start"
    /\ prs' = <<>>
    /\ removedElements' = 0
    /\ transformedMap' = [i \in DOMAIN heap |-> <<>>]
    /\ placeholderPrMap' = <<>>
    /\ categorized' = [c \in 1..Len(cfg.categories) |-> <<>>]
    /\ categorizedPrs' = <<>>
    /\ ignoredPrs' = <<>>
    /\ openPrs' = <<>>
    /\ uncategorizedPrs' = <<>>
    /\ changelog' = <<>>
    /\ UNCHANGED <<cfg, heap, origPrs>>

Next ==
    \/ EmptyInput
    \/ Sort
    \/ Link
    \/ Dedup
    \/ Labels
    \/ Render
    \/ Classify
    \/ Assemble
    \/ Reinvoke

Done == pc = "done"
Classified == pc \in {"assemble", "done"}

-----------------------------------------------------------------------------
(* Inputs *)

La == S("a")
Lb == S("b")

BasePr(n) ==
    [number |-> n, title |-> S("t"), htmlURL |-> S("u"), status |-> "merged",
     createdAt |-> 1, mergedAt |-> 1, mergeCommitSha |-> S("sha"), author |-> S("me"),
     labels |-> <<>>, milestone |-> Undef, body |-> S("text"), assignees |-> <<>>,
     requestedReviewers |-> <<>>, approvedReviewers |-> <<>>, branch |-> Undef,
     baseBranch |-> S("main"), reviews |-> <<>>, childPrs |-> Undef, ruleHits |-> {}]

BaseCategory ==
    [title |-> S("T"), labels |-> Undef, exclude_labels |-> Undef, rules |-> Undef,
     exhaustive |-> Undef, exhaustive_rules |-> Undef, empty_content |-> Undef]

BaseConfig ==
    [sort |-> [order |-> "ASC"], reference |-> Undef, duplicate_filter |-> Undef,
     label_extractor |-> <<>>, transformers |-> <<>>, custom_placeholders |-> <<>>,
     categories |-> <<>>, ignore_labels |-> <<>>,
     pr_template |-> <<P("NUMBER", NoIdx, "")>>,
     template |-> <<P("CHANGELOG", NoIdx, "")>>,
     empty_template |-> S("- no changes"), trim_values |-> FALSE,
     owner |-> S("o"), repo |-> S("r"),
     fromTag |-> [name |-> S("v1"), date |-> Undef],
     toTag |-> [name |-> S("v2"), date |-> Undef],
     diffInfo |-> [changedFiles |-> 1, additions |-> 2, deletions |-> 1, changes |-> 3,
                   commits |-> 1],
     twice |-> FALSE]

(* The labels of a record are lower case: the collector folds them, and    *)
(* the label extractors lower-case what they append.                       *)
RecordLabels == {<<>>, <<La>>, <<Lb>>, <<La, Lb>>}
RuleNames == <<"r1", "r2">>
RuleHits == {{}, {"r1"}, {"r1", "r2"}}

(* every shape of one category *)
CategoryShapes ==
    {[BaseCategory EXCEPT !.labels = l, !.exclude_labels = e, !.rules = r,
                          !.exhaustive = x, !.exhaustive_rules = xr] :
        l \in {Undef, Def(<<>>), Def(<<S("A")>>), Def(<<La, S("B")>>)},
        e \in {Undef, Def(<<S("B")>>)},
        r \in {Undef, Def(RuleNames)},
        x \in {Undef, Def(TRUE)},
        xr \in {Undef, Def(TRUE), Def(FALSE)}}

RecordShapes(n) ==
    {[BasePr(n) EXCEPT !.labels = l, !.ruleHits = rh] :
        l \in RecordLabels, rh \in RuleHits}

(* the heaps of n records numbered 1..n, each of one of the shapes *)
Heaps(n, shapes(_)) ==
    {h \in [1..n -> UNION {shapes(i) : i \in 1..n}] : \A i \in 1..n : h[i].number = i}
Ids(n) == [i \in 1..n |-> i]

MatchPrs == 1

(* a second category, so that a record can match two *)
LabelA == [BaseCategory EXCEPT !.title = S("A"), !.labels = Def(<<La>>)]

InitMatch ==
    /\ pc = "start"
    /\ call = 1
    /\ first = NoResult
    /\ \E n \in 0..MatchPrs :
        /\ origPrs = Ids(n)
        /\ heap \in Heaps(n, RecordShapes)
        /\ \E c \in CategoryShapes :
             cfg = [BaseConfig EXCEPT !.categories = <<c, LabelA>>, !.twice = (n = 0)]
    /\ Locals

SpecMatch == InitMatch /\ [][Next]_vars

(* Several records against several categories *)
MaxPrs == 2
MaxCats == 2

ClassifyRecords(n) ==
    {[BasePr(n) EXCEPT !.labels = <<>>],
     [BasePr(n) EXCEPT !.labels = <<La>>, !.status = "open"],
     [BasePr(n) EXCEPT !.labels = <<Lb>>, !.status = "open", !.ruleHits = {"r1"}],
     [BasePr(n) EXCEPT !.labels = <<La, Lb>>]}

ClassifyCategories ==
    {BaseCategory,
     [BaseCategory EXCEPT !.title = S("E"), !.labels = Def(<<>>),
                          !.exclude_labels = Def(<<S("B")>>)],
     LabelA,
     [BaseCategory EXCEPT !.title = S("R"), !.rules = Def(RuleNames)]}

SeqsUpTo(set, n) == UNION {[1..k -> set] : k \in 0..n}

InitClassify ==
    /\ pc = "start"
    /\ call = 1
    /\ first = NoResult
    /\ \E n \in 0..MaxPrs :
        /\ origPrs = Ids(n)
        /\ heap \in Heaps(n, ClassifyRecords)
        /\ \E cs \in SeqsUpTo(ClassifyCategories, MaxCats), ig \in {<<>>, <<S("B")>>} :
             cfg = [BaseConfig EXCEPT !.categories = cs, !.ignore_labels = ig,
                                      !.twice = (n = 0)]
    /\ Locals

SpecClassify == InitClassify /\ [][Next]_vars

(* Records that refer to each other, and records with equal keys *)
Extractor(graph, method, onProperty, onEmpty) ==
    [valid |-> TRUE, pattern |-> Def([graph |-> graph]), method |-> method,
     onProperty |-> onProperty, onEmpty |-> onEmpty]

BodyOf(i) == <<L("pr"), L(DigitAtom(i))>>
NumberedRecords(i) == {[BasePr(i) EXCEPT !.body = BodyOf(i), !.mergedAt = i]}

(* what an expression finds in one body: nothing (replace then gives the   *)
(* body back), or the strings it captures                                  *)
NoMatch(body) == [m |-> Undef, r |-> body]
Found(strs) == [m |-> Def(strs), r |-> strs[1]]
GraphsOver(n, found) ==
    {[b \in {BodyOf(i) : i \in 1..n} |-> IF IsDef(f[b]) THEN Found(Val(f[b])) ELSE NoMatch(b)] :
        f \in [{BodyOf(i) : i \in 1..n} -> {Undef} \cup {Def(x) : x \in found}]}

LinkPrs == 3

(* the references found: a number of the input (or one past it), text      *)
(* that is no number, a number followed by text, two references            *)
LinkFound ==
    {<<toString(k)>> : k \in 1..LinkPrs}
    \cup {<<S("x")>>, <<<<L("1"), L("x")>>>>, <<S("2"), S("1")>>}

InitLink ==
    /\ pc = "start"
    /\ call = 1
    /\ first = NoResult
    /\ \E n \in 0..LinkPrs :
        /\ origPrs = Ids(n)
        /\ heap \in Heaps(n, NumberedRecords)
        /\ \E g \in GraphsOver(n, LinkFound),
              how \in {<<"match", Undef>>, <<"replace", Def(<<"body">>)>>},
              order \in {"ASC", "DESC"} :
             cfg = [BaseConfig EXCEPT
                       !.reference = Def(Extractor(g, how[1], how[2], Undef)),
                       !.sort = [order |-> order],
                       !.categories = <<BaseCategory>>,
                       !.twice = (n = 0)]
    /\ Locals

SpecLink == InitLink /\ [][Next]_vars

DedupPrs == 3

(* the keys found: `K` and `k` are one key once lower-cased *)
DedupFound == {<<S("k")>>, <<S("K")>>, <<S("j")>>}

InitDedup ==
    /\ pc = "start"
    /\ call = 1
    /\ first = NoResult
    /\ \E n \in 0..DedupPrs :
        /\ origPrs = Ids(n)
        /\ heap \in Heaps(n, NumberedRecords)
        /\ \E g \in GraphsOver(n, DedupFound), onProperty \in {Undef, Def(<<"body">>)},
              order \in {"ASC", "DESC"} :
             cfg = [BaseConfig EXCEPT
                       !.duplicate_filter = Def(Extractor(g, "match", onProperty, Undef)),
                       !.sort = [order |-> order],
                       !.categories = <<BaseCategory>>,
                       !.twice = (n = 0)]
    /\ Locals

SpecDedup == InitDedup /\ [][Next]_vars

(* Records and templates for the rendering, and a caller that invokes    *)
(* buildChangelog twice with the same arguments                            *)
RenderPrs == 2

(* the title ` Fix bug ` *)
FixBug == <<Blank, L("Fix"), Blank, L("bug"), Blank>>

RenderRecords(n) ==
    {[BasePr(n) EXCEPT !.title = FixBug, !.body = BodyOf(n),
                       !.mergedAt = n, !.labels = <<La>>,
                       !.assignees = who[1], !.reviews = who[2]] :
        who \in {<< <<>>, <<>> >>,
                 << <<S("ann"), S("bob")>>, <<[author |-> S("rev"), state |-> S("ok")]>> >>}}

(* the template `${{TITLE}} ` *)
TitleThenBlank == <<P("TITLE", NoIdx, ""), Blank>>

PrTemplates ==
    {TitleThenBlank,
     <<L("-"), Blank, P("TITLE", NoIdx, ""), Blank, P("LABELS", NoIdx, "")>>,
     <<P("NUMBER", NoIdx, ""), Blank, P("ASSIGNEES", 0, ""), L("+"),
       P("ASSIGNEES", Star, ""), P("REVIEWS", 0, "author")>>,
     <<P("NUMBER", NoIdx, ""), L(":"), P("REFERENCED", Star, "number"),
       P("FOO", NoIdx, "")>>}

DocTemplates ==
    {<<P("CHANGELOG", NoIdx, "")>>,
     <<P("UNCATEGORIZED", NoIdx, ""), P("FOO", 0, ""), P("FOO", Star, ""),
       P("CATEGORIZED_COUNT", NoIdx, ""), P("OWNER", NoIdx, "")>>}

(* every body yields the label `X` *)
LabelX(n) == Extractor([b \in {BodyOf(i) : i \in 1..n} |-> Found(<<S("X")>>)],
                       "match", Undef, Undef)
(* the body of record 2 refers to record 1 *)
RefersToOne(n) ==
    Extractor([b \in {BodyOf(i) : i \in 1..n} |->
                  IF b = BodyOf(2) THEN Found(<<S("1")>>) ELSE NoMatch(b)],
              "match", Undef, Undef)
(* FOO is derived from the title *)
Foo == [name |-> "FOO", source |-> P("TITLE", NoIdx, ""),
        transformer |-> [valid |-> TRUE,
                         pattern |-> Def([graph |->
                            [t \in {FixBug} |-> Found(<<<<L("F"), Blank>>>>)]])]]

InitRender ==
    /\ pc = "start"
    /\ call = 1
    /\ first = NoResult
    /\ \E n \in 0..RenderPrs :
        /\ origPrs = Ids(n)
        /\ heap \in Heaps(n, RenderRecords)
        /\ \E pt \in PrTemplates, dt \in DocTemplates, le \in {<<>>, <<LabelX(n)>>},
              ref \in {Undef, Def(RefersToOne(n))}, cp \in {<<>>, <<Foo>>},
              tv \in BOOLEAN :
             cfg = [BaseConfig EXCEPT
                       !.pr_template = pt, !.template = dt, !.label_extractor = le,
                       !.reference = ref, !.custom_placeholders = cp,
                       !.trim_values = tv,
                       !.categories = <<BaseCategory>>,
                       !.twice = TRUE]
    /\ Locals

SpecRender == InitRender /\ [][Next]_vars

-----------------------------------------------------------------------------
(* What the claims speak of, stated on sets *)
Count(x, seq) == Cardinality({i \in 1..Len(seq) : seq[i] = x})
Fold(lbls) == {toLocaleLowerCase(l) : l \in Range(lbls)}
SharesLabel(lbls, id) == Fold(lbls) \cap Fold(heap[id].labels) # {}
HasAllLabels(lbls, id) == Fold(lbls) \subseteq Fold(heap[id].labels)
RulesHold(rules, id, all) ==
    IF all THEN \A r \in Range(rules) : r \in heap[id].ruleHits
    ELSE \E r \in Range(rules) : r \in heap[id].ruleHits
CarriesIgnored(id) == SharesLabel(cfg.ignore_labels, id)
ExcludedFrom(c, id) ==
    /\ IsDef(cfg.categories[c].exclude_labels)
    /\ SharesLabel(Val(cfg.categories[c].exclude_labels), id)
InExhaustiveMode(c) ==
    /\ cfg.categories[c].exhaustive = Def(TRUE)
    /\ (IsDef(cfg.categories[c].labels) \/ IsDef(cfg.categories[c].rules))
CatchAllShaped(c) ==
    /\ cfg.categories[c].labels \in {Undef, Def(<<>>)}
    /\ cfg.categories[c].rules = Undef
FirstCatchAll(c) ==
    /\ CatchAllShaped(c)
    /\ \A d \in 1..(c - 1) : ~CatchAllShaped(d)
CatIds == 1..Len(cfg.categories)
PrIds == Range(prs)

(* C4 as the claim states it: what an exhaustive category matches *)
ExhaustiveExpected(c, id) ==
    LET cat == cfg.categories[c]
        all == IF IsDef(cat.exhaustive_rules) THEN Val(cat.exhaustive_rules) ELSE TRUE
    IN /\ IsDef(cat.labels) => HasAllLabels(Val(cat.labels), id)
       /\ IsDef(cat.rules) => RulesHold(Val(cat.rules), id, all)

(* C4: for an exhaustive category that defines labels or rules and a       *)
(* record not excluded from it, the record's body is in the category's     *)
(* list iff its labels include all the category's labels and, when the     *)
(* category defines rules, the rules hold (all, or any when                *)
(* exhaustive_rules=false); a rules-only category matches on its rules.    *)
C4_ExhaustiveMatches ==
    Classified =>
        \A c \in CatIds, id \in PrIds :
            (InExhaustiveMode(c) /\ ~CarriesIgnored(id) /\ ~ExcludedFrom(c, id))
            => (Count(id, categorized[c]) = 1 <=> ExhaustiveExpected(c, id))

(* C5: what a category outside the exhaustive mode matches *)
IndividualExpected(c, id) ==
    LET cat == cfg.categories[c]
        all == IF IsDef(cat.exhaustive_rules) THEN Val(cat.exhaustive_rules) ELSE FALSE
    IN \/ IsDef(cat.labels) /\ SharesLabel(Val(cat.labels), id)
       \/ IsDef(cat.rules) /\ RulesHold(Val(cat.rules), id, all)

(* C5: for a category that is not in exhaustive mode and a record not      *)
(* excluded from it, the body is pushed onto the category's list once iff  *)
(* the record shares a label with the category or the category's rules     *)
(* hold under exhaustive_rules (default false: any rule); this for every   *)
(* category the record matches.  A record that matched nothing is pushed   *)
(* onto the first catch-all instead, and nowhere else.                     *)
C5_IndividualMatches ==
    Classified =>
        \A c \in CatIds, id \in PrIds :
            (~InExhaustiveMode(c) /\ ~CarriesIgnored(id) /\ ~ExcludedFrom(c, id))
            => Count(id, categorized[c]) =
                 IF IndividualExpected(c, id) THEN 1
                 ELSE IF Count(id, uncategorizedPrs) = 1 /\ FirstCatchAll(c) THEN 1
                 ELSE 0

(* C5 witness: a record matched two categories, one of them on its rules   *)
(* after its labels failed to match.                                       *)
C5_Witness ==
    /\ Classified
    /\ \E id \in PrIds :
        /\ Count(id, categorized[1]) = 1
        /\ Count(id, categorized[2]) = 1
        /\ ~InExhaustiveMode(1)
        /\ IsDef(cfg.categories[1].labels)
        /\ ~SharesLabel(Val(cfg.categories[1].labels), id)
        /\ IsDef(cfg.categories[1].rules)
        /\ cfg.categories[1].exhaustive_rules = Undef
        /\ heap[id].ruleHits = {"r1"}

(* C1: once the records are classified, the categorized and the            *)
(* uncategorized count add up to the number of classified records that     *)
(* carry no ignored label, and each such record is in exactly one of the   *)
(* two buckets.                                                            *)
C1_TotalsInvariant ==
    Classified =>
        /\ Len(categorizedPrs) + Len(uncategorizedPrs)
              = Cardinality({i \in 1..Len(prs) : ~CarriesIgnored(prs[i])})
        /\ \A id \in PrIds :
              ~CarriesIgnored(id)
              => Count(id, categorizedPrs) + Count(id, uncategorizedPrs) = 1

C1_Witness ==
    /\ Classified
    /\ Len(prs) = 2
    /\ Len(categorizedPrs) = 1
    /\ Len(uncategorizedPrs) = 1
    /\ Len(cfg.categories) = 2

(* C2: a record without ignored label that matched no category is pushed   *)
(* onto the first category without labels and rules, when there is one,    *)
(* onto no other category, and always onto the uncategorized bucket; a     *)
(* record that matched is in the categorized bucket, not in the            *)
(* uncategorized one, and the fallback pushes it nowhere.                  *)
C2_Fallback ==
    Classified =>
        \A id \in PrIds :
            ~CarriesIgnored(id) =>
                IF \E c \in CatIds : Matched(cfg.categories[c], heap[id])
                THEN /\ Count(id, categorizedPrs) = 1
                     /\ Count(id, uncategorizedPrs) = 0
                     /\ \A c \in CatIds :
                          Count(id, categorized[c])
                            = IF Matched(cfg.categories[c], heap[id]) THEN 1 ELSE 0
                ELSE /\ Count(id, uncategorizedPrs) = 1
                     /\ Count(id, categorizedPrs) = 0
                     /\ \A c \in CatIds :
                          Count(id, categorized[c]) = IF FirstCatchAll(c) THEN 1 ELSE 0

C2_Witness ==
    /\ Classified
    /\ Len(cfg.categories) = 2
    /\ CatchAllShaped(1) /\ CatchAllShaped(2)
    /\ \E id \in PrIds :
        /\ Count(id, uncategorizedPrs) = 1
        /\ Count(id, categorized[1]) = 1
        /\ Count(id, categorized[2]) = 0

(* C3: a record carrying an ignored label (compared without regard to      *)
(* case) is in the ignored bucket once and in no category list and in      *)
(* none of the open, categorized and uncategorized buckets.                *)
C3_IgnoredOnly ==
    Classified =>
        \A id \in PrIds :
            CarriesIgnored(id) =>
                /\ Count(id, ignoredPrs) = 1
                /\ Count(id, openPrs) = 0
                /\ Count(id, categorizedPrs) = 0
                /\ Count(id, uncategorizedPrs) = 0
                /\ \A c \in CatIds : Count(id, categorized[c]) = 0

(* C3 witness: an open record with the label `b` is ignored through the    *)
(* ignored label `B`, although a category asks for its label and a         *)
(* catch-all exists.                                                       *)
C3_Witness ==
    /\ Classified
    /\ cfg.ignore_labels = <<S("B")>>
    /\ \E id \in PrIds :
        /\ heap[id].labels = <<Lb>>
        /\ heap[id].status = "open"
        /\ Count(id, ignoredPrs) = 1
        /\ \E c \in CatIds : CatchAllShaped(c)

(* C6: a record whose labels share a label with a category's               *)
(* exclude_labels is never in that category's list, by the match or by     *)
(* the fallback.                                                           *)
C6_ExcludedNeverListed ==
    Classified =>
        \A c \in CatIds, id \in PrIds :
            ExcludedFrom(c, id) => Count(id, categorized[c]) = 0

-----------------------------------------------------------------------------
(* Linking and deduplication *)
Records == Range(origPrs)
ChildrenOf(p) == OrEmpty(heap[p].childPrs)
Reference == Val(validateTransformer(cfg.reference))
(* the record the first extracted reference of id names, if any *)
ParentsOf(id) ==
    LET extracted == extractValues(heap[id], Reference)
    IN IF IsDef(extracted) /\ Len(Val(extracted)) > 0
       THEN {p \in Records : ~isNaN(parseInt(Val(extracted)[1]))
                              /\ heap[p].number = parseInt(Val(extracted)[1])}
       ELSE {}
Linked == pc = "dedup" /\ call = 1 /\ IsDef(validateTransformer(cfg.reference))

(* C7: after the linking of records with unique numbers, a record whose    *)
(* first reference is the number of an input record is once in the child   *)
(* sequence of that record, in no other child sequence and not in the      *)
(* root list; every other record is once in the root list and in no child  *)
(* sequence.                                                               *)
C7_LinkedExactlyOnce ==
    Linked =>
        \A id \in Records :
            IF ParentsOf(id) # {}
            THEN /\ Count(id, prs) = 0
                 /\ \A p \in Records :
                      Count(id, ChildrenOf(p)) = IF p \in ParentsOf(id) THEN 1 ELSE 0
            ELSE /\ Count(id, prs) = 1
                 /\ \A p \in Records : Count(id, ChildrenOf(p)) = 0

(* C7 witness: two records are children of a third, which stays a root     *)
C7_Witness ==
    /\ Linked
    /\ \E p \in Records :
        /\ Len(ChildrenOf(p)) = 2
        /\ Count(p, prs) = 1
        /\ ParentsOf(p) = {}
        /\ extractValues(heap[p], Reference) # Undef

DedupOn == IsDef(validateTransformer(cfg.duplicate_filter))
(* the key extracted from a record, if any *)
KeyOf(id) ==
    LET extracted == extractValues(heap[id], Val(validateTransformer(cfg.duplicate_filter)))
    IN IF IsDef(extracted) /\ Len(Val(extracted)) > 0 THEN Def(Val(extracted)[1]) ELSE Undef
SameKey(list, i) == {j \in 1..Len(list) : KeyOf(list[j]) = KeyOf(list[i])}
Least(set) == CHOOSE x \in set : \A y \in set : x <= y
Greatest(set) == CHOOSE x \in set : \A y \in set : x >= y
(* `after` keeps, of the records of `before` with one key, the first (or   *)
(* the last) in the order of `before` and it alone, keeps every record     *)
(* without key, and `removed` is the difference of the lengths             *)
Survivors(before, after, removed, firstKept) ==
    /\ \A i \in 1..Len(before) :
          IF IsDef(KeyOf(before[i]))
          THEN LET keep == IF firstKept THEN Least(SameKey(before, i))
                           ELSE Greatest(SameKey(before, i))
               IN Count(before[i], after) = IF i = keep THEN 1 ELSE 0
          ELSE Count(before[i], after) = 1
    /\ Range(after) \subseteq Range(before)
    /\ removed = Len(before) - Len(after)

(* C8 as stated: after deduplication exactly one record survives for each  *)
(* extracted key, the first one with that key in processing order; every   *)
(* record without key survives; the removed count is the number of         *)
(* records before minus the number of survivors.                           *)
C8_FirstKept ==
    [][(pc = "dedup" /\ DedupOn) => Survivors(prs, prs', removedElements', TRUE)]_vars

(* C8 amended: the survivor of a key is the last record with that key in   *)
(* processing order.                                                       *)
C8_LastKept ==
    [][(pc = "dedup" /\ DedupOn) => Survivors(prs, prs', removedElements', FALSE)]_vars

(* C8 witness: of three records two had one key (`K` and `k`), one had     *)
(* none; one record was removed.                                           *)
C8_Witness ==
    /\ pc = "labels"
    /\ call = 1
    /\ DedupOn
    /\ Len(origPrs) = 3
    /\ removedElements = 1
    /\ Len(prs) = 2
    /\ \E r \in Records : ~IsDef(KeyOf(r)) /\ Count(r, prs) = 1
    /\ \E r \in Records : IsDef(KeyOf(r)) /\ Count(r, prs) = 0

-----------------------------------------------------------------------------
(* Rendering *)

(* C9: buildChangelog invoked a second time with the same arguments (the   *)
(* same record objects, the same configuration) returns the same document  *)
(* and the same categorized, uncategorized, open and ignored counts.       *)
C9_SameResultTwice ==
    (pc = "done" /\ call = 2) => Result = first

PrKeys == {"NUMBER", "TITLE", "URL", "STATUS", "CREATED_AT", "MERGED_AT", "MERGE_SHA",
           "AUTHOR", "LABELS", "MILESTONE", "BODY", "ASSIGNEES", "REVIEWERS",
           "APPROVERS", "BRANCH", "BASE_BRANCH"}
OptionKeys == {"OWNER", "REPO", "FROM_TAG", "FROM_TAG_DATE", "TO_TAG", "TO_TAG_DATE",
               "DAYS_SINCE", "RELEASE_DIFF"}
DocKeys == {"CHANGELOG", "UNCATEGORIZED", "OPEN", "IGNORED", "CATEGORIZED_COUNT",
            "UNCATEGORIZED_COUNT", "OPEN_COUNT", "IGNORED_COUNT", "CHANGED_FILES",
            "ADDITIONS", "DELETIONS", "CHANGES", "COMMITS"} \cup OptionKeys
CustomNames == {cfg.custom_placeholders[i].name : i \in 1..Len(cfg.custom_placeholders)}
IsScalar(it) == it.idx = NoIdx /\ it.field = ""
IsCustomKey(it) == it.key \in CustomNames /\ it.field = ""
(* a built-in key of a record, in one of its forms *)
IsPrKey(it) ==
    \/ it.key \in PrKeys /\ IsScalar(it)
    \/ it.key \in {"ASSIGNEES", "REVIEWERS", "APPROVERS"} /\ it.idx # NoIdx /\ it.field = ""
    \/ it.key = "REVIEWS" /\ it.idx # NoIdx /\ it.field \in Range(CommentInfoKeys)
    \/ it.key = "REFERENCED" /\ it.idx # NoIdx /\ it.field \in Range(PullRequestInfoKeys)
TokensOf(text) == {text[i] : i \in {j \in 1..Len(text) : IsToken(text[j])}}
(* every key the templates refer to is a built-in key of its template or   *)
(* a custom placeholder of the configuration                               *)
KeysDefined ==
    /\ \A it \in TokensOf(cfg.pr_template) : IsPrKey(it) \/ IsCustomKey(it)
    /\ \A it \in TokensOf(cfg.template) :
          (it.key \in DocKeys /\ IsScalar(it)) \/ IsCustomKey(it)
    /\ \A it \in TokensOf(cfg.empty_template) : it.key \in OptionKeys /\ IsScalar(it)

(* C10: when every key the templates refer to is built-in or a custom      *)
(* placeholder of the configuration, the returned document holds no        *)
(* `${{...}}` token, whatever the records.                                 *)
C10_NoTokenLeft ==
    (Done /\ KeysDefined) => TokensOf(changelog) = {}

-----------------------------------------------------------------------------
(* Trimming *)

(* what is to stand in place of a token whose value is v *)
Inserted(v) == IF cfg.trim_values THEN trim(v) ELSE v
FooOn == cfg.custom_placeholders = <<Foo>>
(* the value a record has for a token of the record template, if any *)
PrValue(id, tok) ==
    LET pr == heap[id]
        kids == ChildrenOf(id)
    IN CASE tok = P("TITLE", NoIdx, "") -> Def(pr.title)
         [] tok = P("NUMBER", NoIdx, "") -> Def(toString(pr.number))
         [] tok = P("LABELS", NoIdx, "") -> Def(Join(pr.labels, CommaSpace))
         [] tok = P("ASSIGNEES", 0, "") ->
                IF pr.assignees = <<>> THEN Undef ELSE Def(pr.assignees[1])
         [] tok = P("ASSIGNEES", Star, "") ->
                IF pr.assignees = <<>> THEN Undef ELSE Def(Join(pr.assignees, CommaSpace))
         [] tok = P("REVIEWS", 0, "author") ->
                IF pr.reviews = <<>> THEN Undef ELSE Def(pr.reviews[1].author)
         [] tok = P("REFERENCED", Star, "number") ->
                IF kids = <<>> THEN Undef
                ELSE Def(Join([i \in 1..Len(kids) |-> toString(heap[kids[i]].number)],
                              CommaSpace))
         [] tok = P("FOO", NoIdx, "") ->
                IF FooOn THEN Def(RegexReplace(Val(Foo.transformer.pattern), pr.title))
                ELSE Undef
         [] OTHER -> Undef
HasPrValues(id) == \A tok \in TokensOf(cfg.pr_template) : IsDef(PrValue(id, tok))
(* the record template with every token replaced by its inserted value *)
ExpectedBody(id) ==
    Flatten([i \in 1..Len(cfg.pr_template) |->
        IF IsToken(cfg.pr_template[i])
        THEN Inserted(Val(PrValue(id, cfg.pr_template[i])))
        ELSE <<cfg.pr_template[i]>>])
Rendered == pc = "classify" /\ call = 1

(* the scenario: `${{TITLE}} ` on the title ` Fix bug ` *)
TrimScenario ==
    (Rendered /\ cfg.pr_template = TitleThenBlank) =>
        \A id \in PrIds :
            transformedMap[id] = IF cfg.trim_values THEN <<L("Fix"), Blank, L("bug")>>
                                 ELSE FixBug \o <<Blank>>
(* the values of the record template: scalar, indexed, joined, custom *)
TrimBodies ==
    Rendered => \A id \in PrIds : HasPrValues(id) => transformedMap[id] = ExpectedBody(id)

(* the values of the custom placeholder over the records, in their order *)
FooValues == [i \in 1..Len(prs) |-> RegexReplace(Val(Foo.transformer.pattern), heap[prs[i]].title)]
(* the [*] form: the values trimmed and joined, or joined and trimmed *)
FooJoined ==
    {Flatten([i \in 1..Len(FooValues) |-> Inserted(FooValues[i])]),
     Inserted(Flatten(FooValues))}
DocValue(tok) ==
    CASE tok = P("CHANGELOG", NoIdx, "") ->
            ChangelogSections(cfg.categories, categorized, transformedMap)
      [] tok = P("UNCATEGORIZED", NoIdx, "") ->
            Flatten([i \in 1..Len(uncategorizedPrs) |->
                        transformedMap[uncategorizedPrs[i]] \o <<NL>>])
      [] tok = P("FOO", 0, "") -> FooValues[1]
      [] tok = P("CATEGORIZED_COUNT", NoIdx, "") -> toString(Len(categorizedPrs))
      [] OTHER -> cfg.owner
ExpectedDocs ==
    {Flatten([i \in 1..Len(cfg.template) |->
        IF cfg.template[i] = P("FOO", Star, "") THEN all
        ELSE Inserted(DocValue(cfg.template[i]))]) : all \in FooJoined}
(* the values of the document template, the custom placeholder's forms     *)
(* among them                                                              *)
TrimDocument ==
    (Done /\ call = 1 /\ FooOn /\ Len(prs) > 0 /\ \A id \in PrIds : HasPrValues(id))
        => changelog \in ExpectedDocs

(* C11: with trim_values the template `${{TITLE}} ` renders the title      *)
(* ` Fix bug ` as `Fix bug`, and every value (scalar, indexed, [*]-joined, *)
(* custom) is inserted trimmed, in the body of a record and in the         *)
(* document; without trim_values the values are inserted as they are.      *)
C11_TrimmedValues == TrimScenario /\ TrimBodies /\ TrimDocument

-----------------------------------------------------------------------------
(* The empty input *)

EmptyPrs == 1

NoChanges == S("No changes.")
(* ORG is derived from the owner *)
Org == [name |-> "ORG", source |-> P("OWNER", NoIdx, ""),
        transformer |-> [valid |-> TRUE,
                         pattern |-> Def([graph |->
                            [t \in {S("o")} |-> Found(<<S("org")>>)]])]]
EmptyTemplates ==
    {NoChanges,
     <<P("OWNER", NoIdx, ""), L("/"), P("REPO", NoIdx, ""), Blank,
       P("FROM_TAG", NoIdx, ""), L(".."), P("TO_TAG", NoIdx, ""), Blank,
       P("DAYS_SINCE", NoIdx, ""), Blank, P("RELEASE_DIFF", NoIdx, "")>>,
     <<P("FROM_TAG_DATE", NoIdx, ""), L("-"), P("TO_TAG_DATE", NoIdx, ""), Blank,
       P("CHANGELOG", NoIdx, ""), P("CATEGORIZED_COUNT", NoIdx, ""),
       P("TITLE", NoIdx, ""), P("ORG", NoIdx, "")>>}

InitEmpty ==
    /\ pc = "start"
    /\ call = 1
    /\ first = NoResult
    /\ \E n \in 0..EmptyPrs :
        /\ origPrs = Ids(n)
        /\ heap \in Heaps(n, NumberedRecords)
        /\ \E et \in EmptyTemplates, from \in {Undef, Def(3)}, to \in {Undef, Def(12)},
              cp \in {<<>>, <<Org>>}, tv \in BOOLEAN :
             cfg = [BaseConfig EXCEPT
                       !.empty_template = et,
                       !.fromTag = [name |-> S("v1"), date |-> from],
                       !.toTag = [name |-> S("v2"), date |-> to],
                       !.custom_placeholders = cp,
                       !.trim_values = tv,
                       !.categories = <<BaseCategory>>,
                       !.twice = TRUE]
    /\ Locals

SpecEmpty == InitEmpty /\ [][Next]_vars

(* the value of a document-level key, if the token is one *)
EmptyValue(tok) ==
    CASE tok = P("OWNER", NoIdx, "") -> Def(cfg.owner)
      [] tok = P("REPO", NoIdx, "") -> Def(cfg.repo)
      [] tok = P("FROM_TAG", NoIdx, "") -> Def(cfg.fromTag.name)
      [] tok = P("TO_TAG", NoIdx, "") -> Def(cfg.toTag.name)
      [] tok = P("FROM_TAG_DATE", NoIdx, "") ->
            Def(IF IsDef(cfg.fromTag.date) THEN toString(Val(cfg.fromTag.date)) ELSE <<>>)
      [] tok = P("TO_TAG_DATE", NoIdx, "") ->
            Def(IF IsDef(cfg.toTag.date) THEN toString(Val(cfg.toTag.date)) ELSE <<>>)
      [] tok = P("DAYS_SINCE", NoIdx, "") ->
            Def(IF IsDef(cfg.fromTag.date) /\ IsDef(cfg.toTag.date)
                THEN toString(Val(cfg.toTag.date) - Val(cfg.fromTag.date)) ELSE <<>>)
      [] tok = P("RELEASE_DIFF", NoIdx, "") ->
            Def(<<L("https://github.com/")>> \o cfg.owner \o S("/") \o cfg.repo
                \o S("/compare/") \o cfg.fromTag.name \o S("...") \o cfg.toTag.name)
      [] tok = P("ORG", NoIdx, "") ->
            IF cfg.custom_placeholders = <<Org>> THEN Def(S("org")) ELSE Undef
      [] OTHER -> Undef
(* the empty template with the document-level tokens replaced and every    *)
(* other token left as it is                                               *)
ExpectedEmpty ==
    Flatten([i \in 1..Len(cfg.empty_template) |->
        IF IsDef(EmptyValue(cfg.empty_template[i]))
        THEN Inserted(Val(EmptyValue(cfg.empty_template[i])))
        ELSE <<cfg.empty_template[i]>>])

(* C12: an invocation on an empty list returns at once the empty template  *)
(* with the document-level keys replaced (`No changes.` as it is) and      *)
(* leaves the records and every local of the stages alone; an invocation   *)
(* on a non-empty list goes on to the stages.                              *)
C12_EmptyShortCircuit ==
    [][pc = "start" =>
          IF Len(origPrs) = 0
          THEN /\ pc' = "done"
               /\ changelog' = ExpectedEmpty
               /\ (cfg.empty_template = NoChanges => changelog' = NoChanges)
               /\ UNCHANGED <<heap, prs, removedElements, transformedMap, placeholderPrMap,
                              categorized, categorizedPrs, ignoredPrs, openPrs,
                              uncategorizedPrs>>
          ELSE pc' = "link" /\ changelog' = <<>>]_vars

(* C12 witness: the empty list gave a document in which the keys of the    *)
(* empty template were replaced, the day count among them                  *)
C12_Witness ==
    /\ Done
    /\ call = 1
    /\ Len(origPrs) = 0
    /\ P("DAYS_SINCE", NoIdx, "") \in Range(cfg.empty_template)
    /\ IsDef(cfg.fromTag.date) /\ IsDef(cfg.toTag.date)
    /\ TokensOf(changelog) = {}
    /\ L("9") \in Range(changelog)

-----------------------------------------------------------------------------
(* A record and the same record with one label more *)

MonoPrs == 2

(* exhaustive categories *)
ExhaustiveShapes ==
    {[BaseCategory EXCEPT !.labels = l, !.exclude_labels = e, !.rules = r,
                          !.exhaustive = Def(TRUE)] :
        l \in {Undef, Def(<<>>), Def(<<S("A")>>), Def(<<La, S("B")>>)},
        e \in {Undef, Def(<<S("B")>>)},
        r \in {Undef, Def(RuleNames)}}
MonoRecords(n) ==
    {[BasePr(n) EXCEPT !.labels = l, !.ruleHits = rh] :
        l \in RecordLabels, rh \in {{}, {"r1", "r2"}}}

InitMono ==
    /\ pc = "start"
    /\ call = 1
    /\ first = NoResult
    /\ \E n \in 0..MonoPrs :
        /\ origPrs = Ids(n)
        /\ heap \in Heaps(n, MonoRecords)
        /\ \E c \in ExhaustiveShapes, ig \in {<<>>, <<S("B")>>} :
             cfg = [BaseConfig EXCEPT !.categories = <<c>>, !.ignore_labels = ig,
                                      !.twice = (n = 0)]
    /\ Locals

SpecMono == InitMono /\ [][Next]_vars

(* record j is record i with the label x added, all else equal *)
WithLabel(i, j, x) ==
    /\ x \notin Range(heap[i].labels)
    /\ Range(heap[j].labels) = Range(heap[i].labels) \cup {x}
    /\ [heap[j] EXCEPT !.labels = <<>>, !.number = 0, !.mergedAt = 0]
         = [heap[i] EXCEPT !.labels = <<>>, !.number = 0, !.mergedAt = 0]
AddedLabels == {La, Lb}
Listed(c, id) == Count(id, categorized[c]) > 0

-----------------------------------------------------------------------------
(* Roots, children and cycles *)

IsRoot(id) == Count(id, prs) > 0
IsChild(id) == \E p \in Records : Count(id, ChildrenOf(p)) > 0
(* b is reached from a by following childPrs at most k times *)
RECURSIVE Reaches(_, _, _)
Reaches(a, b, k) ==
    /\ k > 0
    /\ \/ Count(b, ChildrenOf(a)) > 0
       \/ \E m \in Range(ChildrenOf(a)) : Reaches(m, b, k - 1)
RefersToItself(id) == id \in ParentsOf(id)

(* C14: after the linking, a record that refers to its own number is a     *)
(* root and not in its own child sequence; no record is both a root and a  *)
(* child; no record reaches itself by following childPrs.                  *)
C14_NoSelfChildNoCycle ==
    Linked =>
        /\ \A id \in Records :
              RefersToItself(id) => (IsRoot(id) /\ Count(id, ChildrenOf(id)) = 0)
        /\ \A id \in Records : ~(IsRoot(id) /\ IsChild(id))
        /\ \A id \in Records : ~Reaches(id, id, Cardinality(Records))

====
